---------------------------- MODULE Spec2Model ----------------------------
(***************************************************************************)
(* Two-phase tableau simplex solver (saport.simplex.solver.Solver).        *)
(*                                                                         *)
(* One behaviour is one Solver instance: a first solve(model) call, taken  *)
(* step by step (augmentation, the Phase-I pivot loop, the restoration of  *)
(* the Phase-II tableau, the Phase-II pivot loop, the Solution), and, in   *)
(* SpecReuse, further solve calls on the same instance.                    *)
(*                                                                         *)
(* Numbers are exact rationals <<numerator, denominator>> in lowest terms  *)
(* with a positive denominator; the program computes in floating point,    *)
(* so the model describes it up to rounding.                               *)
(*                                                                         *)
(* Indices are the program's: variables and tableau columns from 0,        *)
(* constraints from 0, tableau row 0 the objective row, row i + 1 the row  *)
(* of constraint i, the last column the right-hand side.                   *)
(***************************************************************************)
EXTENDS Integers, FiniteSets, Sequences, TLC

VARIABLES
    model,            \* the caller's model, argument of solve
    pc,               \* position inside solve
    normal_model,     \* solve's local: the augmented model
    presolve_model,   \* _presolve's local: the Phase-I model
    tableau,          \* solve's local: the tableau the pivot loop mutates
    initial_tableau,  \* solve's local: deepcopy(tableau) of line 45
    _slacks,          \* Solver._slacks
    _surpluses,       \* Solver._surpluses
    _artificial,      \* Solver._artificial
    solution,         \* the Solution solve returns
    presolved,        \* whether this call ran _presolve
    presolve_initial, \* the table _presolve_initial_tableau returned
    pivoted,          \* whether the running _optimize loop has pivoted
    pivot_col,        \* _optimize's local: the entering column
    pivot_row,        \* _optimize's local: the leaving row
    call,             \* number of the solve call on this instance
    first             \* model and Solution of the first call

vars == <<model, pc, normal_model, presolve_model, tableau, initial_tableau, _slacks,
          _surpluses, _artificial, solution, presolved, presolve_initial,
          pivoted, pivot_col, pivot_row, call, first>>

---------------------------------------------------------------------------
(* Exact arithmetic standing for numpy's float64.                          *)

RECURSIVE GCD(_, _)
GCD(a, b) == IF b = 0 THEN a ELSE GCD(b, a % b)

Abs(a) == IF a < 0 THEN -a ELSE a

Norm(n, d) ==
    LET s == IF d < 0 THEN -1 ELSE 1
        g == GCD(Abs(n), Abs(d))
    IN  <<(s * n) \div g, (s * d) \div g>>

Rat(i) == <<i, 1>>
Zero == Rat(0)
One == Rat(1)

Add(x, y) == Norm(x[1] * y[2] + y[1] * x[2], x[2] * y[2])
Neg(x) == <<-x[1], x[2]>>
Sub(x, y) == Add(x, Neg(y))
Mul(x, y) == Norm(x[1] * y[1], x[2] * y[2])
Div(x, y) == Norm(x[1] * y[2], x[2] * y[1])
Lt(x, y) == x[1] * y[2] < y[1] * x[2]
Le(x, y) == x[1] * y[2] <= y[1] * x[2]

\* Sum of f[i] over the finite set S of integers.
RECURSIVE SumOver(_, _)
SumOver(S, f) ==
    IF S = {} THEN Zero
    ELSE LET i == CHOOSE j \in S : \A k \in S : j <= k
         IN  Add(f[i], SumOver(S \ {i}, f))

\* Number of elements of S below i: the position of i in S taken in order.
Rank(S, i) == Cardinality({j \in S : j < i})

---------------------------------------------------------------------------
(* Models.  An expression is its dense coefficient vector over the         *)
(* variables that existed when it was last changed; a constraint built by  *)
(* add_constraint carries no constant term, so Model.simplify leaves it    *)
(* as it is.                                                               *)

Vec(t) == [j \in 0..(Len(t) - 1) |-> Rat(t[j + 1])]
List(t) == [j \in 0..(Len(t) - 1) |-> t[j + 1]]

Constraint(a, type, bound) == [expression |-> a, type |-> type, bound |-> bound]

Model(n, cons, obj, type) ==
    [n |-> n, constraints |-> cons, objective |-> [expression |-> obj, type |-> type]]

NCons(mdl) == Cardinality(DOMAIN mdl.constraints)

\* Expression.coefficients(model): the dense vector over the model's variables.
coefficients(expr, mdl) ==
    [j \in 0..(mdl.n - 1) |-> IF j \in DOMAIN expr THEN expr[j] ELSE Zero]


---------------------------------------------------------------------------
(* Objective.invert and Constraint.invert of the model classes.            *)

invert_objective(o) ==
    [expression |-> [j \in DOMAIN o.expression |-> Neg(o.expression[j])],
     type |-> IF o.type = "MIN" THEN "MAX" ELSE "MIN"]

invert_constraint(c) ==
    [expression |-> [j \in DOMAIN c.expression |-> Neg(c.expression[j])],
     type |-> CASE c.type = "LE" -> "GE" [] c.type = "GE" -> "LE" [] OTHER -> "EQ",
     bound |-> Neg(c.bound)]

\* expression + k * variable, for the variable of index v.
plus_variable(expr, v, k) ==
    LET top == IF DOMAIN expr = {} THEN v
               ELSE LET hi == CHOOSE j \in DOMAIN expr : \A q \in DOMAIN expr : q <= j
                    IN  IF hi < v THEN v ELSE hi
    IN  [j \in 0..top |->
            Add(IF j \in DOMAIN expr THEN expr[j] ELSE Zero, IF j = v THEN k ELSE Zero)]

---------------------------------------------------------------------------
(* Solver: the standard form.                                              *)

_change_objective_to_max(mdl) ==
    IF mdl.objective.type = "MIN"
    THEN [mdl EXCEPT !.objective = invert_objective(mdl.objective)]
    ELSE mdl

\* A variant of the bound normalisation that also inverts a zero bound.
change_bounds_inverting_zero(mdl) ==
    [mdl EXCEPT !.constraints =
        [i \in DOMAIN mdl.constraints |->
            IF Le(mdl.constraints[i].bound, Zero)
            THEN invert_constraint(mdl.constraints[i])
            ELSE mdl.constraints[i]]]

_change_constraints_bounds_to_nonnegative(mdl) ==
    [mdl EXCEPT !.constraints =
        [i \in DOMAIN mdl.constraints |->
            IF Lt(mdl.constraints[i].bound, Zero)
            THEN invert_constraint(mdl.constraints[i])
            ELSE mdl.constraints[i]]]

\* The loop shared by _add_slack_variables, _add_surplus_variables and
\* _add_artificial_variables: one new variable, in constraint order, for
\* every constraint of `chosen`, added with coefficient k to its expression.
\* The result is the changed model and the dict variable -> constraint.
add_variables(mdl, chosen, k, retype) ==
    LET var(i) == mdl.n + Rank(chosen, i)
        last == mdl.n + Cardinality(chosen) - 1
    IN  [model |->
            [mdl EXCEPT
                !.n = last + 1,
                !.constraints =
                    [i \in DOMAIN mdl.constraints |->
                        IF i \in chosen
                        THEN [mdl.constraints[i] EXCEPT
                                !.expression = plus_variable(@, var(i), k),
                                !.type = IF retype THEN "EQ" ELSE @]
                        ELSE mdl.constraints[i]]],
         dict |-> [v \in mdl.n..last |-> CHOOSE i \in chosen : var(i) = v]]

\* A variant of _add_slack_variables that fills the map left in self._slacks
\* by the previous call instead of a fresh dict().
add_slack_variables_into_old_map(mdl) ==
    LET fresh == add_variables(mdl, {i \in DOMAIN mdl.constraints : mdl.constraints[i].type = "LE"},
                               One, TRUE)
    IN  [model |-> fresh.model,
         dict |-> [v \in DOMAIN fresh.dict \cup DOMAIN _slacks |->
                      IF v \in DOMAIN fresh.dict THEN fresh.dict[v] ELSE _slacks[v]]]

_add_slack_variables(mdl) ==
    add_variables(mdl, {i \in DOMAIN mdl.constraints : mdl.constraints[i].type = "LE"},
                  One, TRUE)

_add_surplus_variables(mdl) ==
    add_variables(mdl, {i \in DOMAIN mdl.constraints : mdl.constraints[i].type = "GE"},
                  Neg(One), TRUE)

\* _augment_model: the augmented model and the two dicts it stores in self.
_augment_model(original_model) ==
    LET positive == _change_constraints_bounds_to_nonnegative(
                        _change_objective_to_max(original_model))
        slack == _add_slack_variables(positive)
        surplus == _add_surplus_variables(slack.model)
    IN  [model |-> surplus.model, _slacks |-> slack.dict, _surpluses |-> surplus.dict]

\* The values of a dict.
values(dict) == {dict[v] : v \in DOMAIN dict}

\* _add_artificial_variables reads self._slacks.
_add_artificial_variables(mdl) ==
    LET with_slack == values(_slacks)
        chosen == {i \in DOMAIN mdl.constraints : i \notin with_slack}
        added == add_variables(mdl, chosen, One, FALSE)
    IN  [model |->
            [added.model EXCEPT
                !.objective.expression =
                    [j \in 0..(added.model.n - 1) |->
                        Add(IF j \in DOMAIN @ THEN @[j] ELSE Zero,
                            IF j \in DOMAIN added.dict THEN One ELSE Zero)]],
         dict |-> added.dict]

_create_presolve_model(augmented_model) == _add_artificial_variables(augmented_model)

---------------------------------------------------------------------------
(* Tableau.  A table is a function row -> column -> number; comparisons    *)
(* against 0 are exact (tolerance 0).                                      *)

rows_of(table) == DOMAIN table
constraint_rows(table) == DOMAIN table \ {0}
\* The index of the right-hand-side column; the variables' columns are below it.
rhs_col(table) == Cardinality(DOMAIN table[0]) - 1
variable_cols(table) == 0..(rhs_col(table) - 1)

\* The table with row r replaced: table[r] = row.
with_row(table, r, row) == [q \in rows_of(table) |-> IF q = r THEN row ELSE table[q]]

is_optimal(table) == \A j \in variable_cols(table) : Le(Zero, table[0][j])

\* Most negative objective-row entry, the lowest column on ties.
choose_entering_variable(table) ==
    CHOOSE j \in variable_cols(table) :
        \A k \in variable_cols(table) :
            \/ Lt(table[0][j], table[0][k])
            \/ table[0][j] = table[0][k] /\ j <= k

is_unbounded(table, col) == \A r \in constraint_rows(table) : Le(table[r][col], Zero)

\* Minimum ratio over the rows with a positive entry, the lowest row on ties.
choose_leaving_variable(table, col) ==
    LET candidates == {r \in constraint_rows(table) : Lt(Zero, table[r][col])}
        ratio(r) == Div(table[r][rhs_col(table)], table[r][col])
    IN  CHOOSE r \in candidates :
            \A q \in candidates :
                \/ Lt(ratio(r), ratio(q))
                \/ ratio(r) = ratio(q) /\ r <= q

pivot(table, row, col) ==
    LET scaled == [j \in DOMAIN table[row] |-> Div(table[row][j], table[row][col])]
    IN  [r \in rows_of(table) |->
            IF r = row THEN scaled
            ELSE [j \in DOMAIN table[r] |->
                    Sub(table[r][j], Mul(table[r][col], scaled[j]))]]

\* A column is the basic column of row r when it is 1 in row r and 0 in
\* every other row, the objective row included.
is_basic_col(table, j, r) ==
    /\ table[r][j] = One
    /\ \A q \in rows_of(table) \ {r} : table[q][j] = Zero

\* The basic column of every constraint row: the first one in column order,
\* -1 when the row has none.
extract_basis(table) ==
    [r \in constraint_rows(table) |->
        LET unit == {j \in variable_cols(table) : is_basic_col(table, j, r)}
        IN  IF unit = {} THEN -1 ELSE CHOOSE j \in unit : \A k \in unit : j <= k]

extract_assignment(table) ==
    LET basis == extract_basis(table)
    IN  [j \in variable_cols(table) |->
            IF \E r \in constraint_rows(table) : basis[r] = j
            THEN table[CHOOSE r \in constraint_rows(table) : basis[r] = j][rhs_col(table)]
            ELSE Zero]

---------------------------------------------------------------------------
(* Solver: the tableaux.                                                   *)

_basic_initial_tableau(mdl) ==
    LET n == mdl.n
        objective == coefficients(mdl.objective.expression, mdl)
        row(c) == coefficients(c.expression, mdl)
    IN  [r \in 0..NCons(mdl) |->
            [j \in 0..n |->
                IF r = 0 THEN (IF j = n THEN Zero ELSE Mul(Rat(-1), objective[j]))
                ELSE IF j = n THEN mdl.constraints[r - 1].bound
                ELSE row(mdl.constraints[r - 1])[j]]]

\* Reads self._artificial.
_presolve_initial_tableau(mdl) ==
    LET table == _basic_initial_tableau(mdl)
        with_artificial == values(_artificial)
    IN  with_row(table, 0,
            [j \in DOMAIN table[0] |->
                Sub(IF j \in DOMAIN _artificial THEN One ELSE Zero,
                    SumOver(with_artificial, [c \in with_artificial |-> table[c + 1][j]]))])

\* Reads self._artificial.
_artifical_variables_are_positive(table) ==
    LET assignment == extract_assignment(table)
    IN  \E var \in DOMAIN _artificial : Lt(Zero, assignment[var])

\* np.delete(table, columns, axis=1)
delete_columns(table, columns) ==
    LET kept == DOMAIN table[0] \ columns
        width == Cardinality(kept)
    IN  [r \in rows_of(table) |->
            [j \in 0..(width - 1) |-> table[r][CHOOSE c \in kept : Rank(kept, c) = j]]]

\* np.amax, np.amin and np.argmax of a vector indexed from 0.
amax(col) == CHOOSE x \in values(col) : \A y \in values(col) : Le(y, x)
amin(col) == CHOOSE x \in values(col) : \A y \in values(col) : Le(x, y)
argmax(col) == CHOOSE k \in DOMAIN col : col[k] = amax(col) /\ \A q \in DOMAIN col : col[q] = amax(col) => k <= q

\* The test of line 210 on column i of the constraint rows.
restore_column(table, i) == [k \in 0..(Cardinality(rows_of(table)) - 2) |-> table[k + 1][i]]
restore_selects(table, i) ==
    amax(restore_column(table, i)) = One /\ amin(restore_column(table, i)) = Zero

\* The loop of lines 208-211 from column i on: the right-hand-side column is
\* one of the columns it visits.
RECURSIVE restore_loop(_, _)
restore_loop(table, i) ==
    IF i > rhs_col(table) THEN table
    ELSE IF restore_selects(table, i)
    THEN LET row == table[argmax(restore_column(table, i)) + 1]
         IN  restore_loop(
                with_row(table, 0,
                    [j \in DOMAIN table[0] |-> Sub(table[0][j], Mul(table[0][i], row[j]))]),
                i + 1)
    ELSE restore_loop(table, i + 1)

\* Reads self._artificial; mdl is the augmented model.
_restore_initial_tableau(table, mdl) ==
    LET deleted == delete_columns(table, DOMAIN _artificial)
        objective == coefficients(mdl.objective.expression, mdl)
        new_table ==
            with_row(deleted, 0,
                [j \in DOMAIN deleted[0] |->
                    IF j = rhs_col(deleted) THEN Zero ELSE Mul(Rat(-1), objective[j])])
    IN  restore_loop(new_table, 0)

---------------------------------------------------------------------------
(* The models solve is called with.                                        *)

\* Largest number of constraints of a generated model.
MaxCons == 2
\* Number of solve calls on one Solver instance in SpecReuse.
MaxCalls == 3

Frac(n, d) == Norm(n, d)

\* example_04_solvable_artificial_vars.create_model
Example04 ==
    Model(2,
          List(<<Constraint(Vec(<<1, 2>>), "LE", Rat(20)),
                 Constraint(Vec(<<1, 1>>), "EQ", Rat(10))>>),
          Vec(<<2, 1>>), "MAX")

\* example_05_infeasible.create_model
Example05 ==
    Model(3,
          List(<<Constraint(Vec(<<1, -3, 1>>), "GE", Rat(10)),
                 Constraint(Vec(<<1, 2, -1>>), "LE", Rat(-10))>>),
          Vec(<<5, 8>>), "MAX")

\* Scenario 3 of the specification: a slack-only model.
Scenario3 ==
    Model(2,
          List(<<Constraint(Vec(<<1, 0>>), "LE", Rat(4)),
                 Constraint(Vec(<<0, 1>>), "LE", Rat(6)),
                 Constraint(Vec(<<1, 1>>), "LE", Rat(8))>>),
          Vec(<<3, 2>>), "MAX")

\* Beale's degenerate model: maximize 3/4 x1 - 20 x2 + 1/2 x3 - 6 x4, optimum 5/4.
BealeRows ==
    <<Constraint(List(<<Frac(1, 4), Rat(-8), Rat(-1), Rat(9)>>), "LE", Zero),
      Constraint(List(<<Frac(1, 2), Rat(-12), Frac(-1, 2), Rat(3)>>), "LE", Zero),
      Constraint(Vec(<<0, 0, 1, 0>>), "LE", One)>>
BealeObjective == <<Frac(3, 4), Rat(-20), Frac(1, 2), Rat(-6)>>

Beale == Model(4, List(BealeRows), List(BealeObjective), "MAX")

\* Beale's model with a fifth variable that no constraint bounds.
BealeUnbounded ==
    Model(5, List(BealeRows), List(BealeObjective \o <<Frac(1, 4)>>), "MAX")

\* Beale's model with its objective required to be 3, above its optimum.
BealeInfeasible ==
    Model(4, List(BealeRows \o <<Constraint(List(BealeObjective), "EQ", Rat(3))>>),
          Vec(<<0, 0, 0, 0>>), "MAX")

FixedModels == {Example04, Example05, Scenario3, Beale, BealeUnbounded, BealeInfeasible}

\* Generated models over two variables.
Pool ==
    {Constraint(Vec(<<1, 1>>), type, Rat(b)) : type \in {"LE", "GE", "EQ"}, b \in {-1, 2}}
    \cup {Constraint(Vec(<<1, -1>>), type, Rat(b)) : type \in {"LE", "GE"}, b \in {0, 2}}
    \cup {Constraint(Vec(<<1, 1>>), "LE", Rat(0)), Constraint(Vec(<<1, 1>>), "EQ", Rat(0)),
          Constraint(Vec(<<-1, -1>>), "GE", Rat(0))}

Objectives == {Vec(<<1, 0>>), Vec(<<1, 1>>), Vec(<<-1, 1>>)}

GeneratedModels ==
    UNION {{Model(2, cons, obj, type) :
                cons \in [0..(m - 1) -> Pool], obj \in Objectives, type \in {"MAX", "MIN"}} :
           m \in 1..MaxCons}

Models == FixedModels \cup GeneratedModels

\* The models of the first call of SpecReuse, which its last call repeats.
ReuseModels ==
    {Example04, Example05, Scenario3}
    \cup {Model(2, cons, Vec(<<1, 1>>), "MAX") : cons \in [0..0 -> Pool] \cup [0..1 -> Pool]}

\* The models of the calls between the first call and its repetition.
OtherModels == {Example04, Example05, Scenario3}

---------------------------------------------------------------------------
(* Solution.                                                               *)

None == <<>>

Solution(status, assignment, initial, final) ==
    [status |-> status, assignment |-> assignment,
     initial_tableau |-> initial, tableau |-> final]

\* Solution.assignment(model): the values of the caller's own variables.
assignment_of(sol, mdl) == [j \in 0..(mdl.n - 1) |-> sol.assignment[j]]

---------------------------------------------------------------------------
(* Solver.solve, step by step.                                             *)

Init ==
    /\ model \in Models
    /\ pc = "start"
    /\ normal_model = None
    /\ presolve_model = None
    /\ tableau = None
    /\ initial_tableau = None
    /\ _slacks = None
    /\ _surpluses = None
    /\ _artificial = None
    /\ solution = None
    /\ presolved = FALSE
    /\ presolve_initial = None
    /\ pivoted = FALSE
    /\ pivot_col = None
    /\ pivot_row = None
    /\ call = 1
    /\ first = None

\* Line 37: normal_model = self._augment_model(model)
Augment ==
    /\ pc = "start"
    /\ LET augmented == _augment_model(model)
       IN  /\ normal_model' = augmented.model
           /\ _slacks' = augmented._slacks
           /\ _surpluses' = augmented._surpluses
    /\ pc' = "augmented"
    /\ UNCHANGED <<model, presolve_model, tableau, initial_tableau, _artificial, solution, presolved,
                   presolve_initial, pivoted, pivot_col, pivot_row, call, first>>

\* Line 38, the test that sends solve to _presolve.
needs_presolve == Cardinality(DOMAIN _slacks) < NCons(normal_model)

\* Lines 38-39 and 67: presolve_model = self._create_presolve_model(model)
CreatePresolveModel ==
    /\ pc = "augmented"
    /\ needs_presolve
    /\ LET created == _create_presolve_model(normal_model)
       IN  /\ presolve_model' = created.model
           /\ _artificial' = created.dict
    /\ presolved' = TRUE
    /\ pc' = "presolve"
    /\ UNCHANGED <<model, normal_model, tableau, initial_tableau, _slacks, _surpluses,
                   solution, presolve_initial, pivoted, pivot_col, pivot_row, call, first>>

\* Line 68: tableau = self._presolve_initial_tableau(presolve_model)
PresolveInitialTableau ==
    /\ pc = "presolve"
    /\ tableau' = _presolve_initial_tableau(presolve_model)
    /\ presolve_initial' = tableau'
    /\ pivoted' = FALSE
    /\ pc' = "phase1"
    /\ UNCHANGED <<model, normal_model, presolve_model, initial_tableau, _slacks,
                   _surpluses, _artificial, solution, presolved, pivot_col, pivot_row, call, first>>

\* Lines 43 and 45: the slack-only tableau and its copy.
BeginBasic ==
    /\ pc = "augmented"
    /\ ~needs_presolve
    /\ tableau' = _basic_initial_tableau(normal_model)
    /\ initial_tableau' = tableau'
    /\ pivoted' = FALSE
    /\ pc' = "phase2"
    /\ UNCHANGED <<model, normal_model, presolve_model, _slacks, _surpluses, _artificial, solution,
                   presolved, presolve_initial, pivot_col, pivot_row, call, first>>

\* _optimize: whether the loop goes round once more, and the pivot it makes.
optimize_continues(table) ==
    /\ ~is_optimal(table)
    /\ ~is_unbounded(table, choose_entering_variable(table))

\* What _optimize returns when the loop has halted.
optimize_result(table) == is_optimal(table)

\* Line 70, lines 53-57 of the loop of _optimize on the Phase-I tableau: the
\* loop goes round and the pivot is chosen.
Phase1Choose ==
    /\ pc = "phase1"
    /\ optimize_continues(tableau)
    /\ pivot_col' = choose_entering_variable(tableau)
    /\ pivot_row' = choose_leaving_variable(tableau, pivot_col')
    /\ pc' = "phase1_pivot"
    /\ UNCHANGED <<model, normal_model, presolve_model, tableau, initial_tableau, _slacks,
                   _surpluses, _artificial, solution, presolved, presolve_initial, pivoted,
                   call, first>>

\* Line 59 on the Phase-I tableau: tableau.pivot(pivot_row, pivot_col)
Phase1Pivot ==
    /\ pc = "phase1_pivot"
    /\ tableau' = pivot(tableau, pivot_row, pivot_col)
    /\ pivoted' = TRUE
    /\ pc' = "phase1"
    /\ UNCHANGED <<model, normal_model, presolve_model, initial_tableau, _slacks, _surpluses,
                   _artificial, solution, presolved, presolve_initial, pivot_col, pivot_row,
                   call, first>>

\* Lines 72-73 and 40-41: Solution.infeasible(model, tableau, tableau)
Phase1Infeasible ==
    /\ pc = "phase1"
    /\ ~optimize_continues(tableau)
    /\ _artifical_variables_are_positive(tableau)
    /\ solution' = Solution("infeasible", None, tableau, tableau)
    /\ pc' = "done"
    /\ UNCHANGED <<model, normal_model, presolve_model, tableau, initial_tableau, _slacks, _surpluses,
                   _artificial, presolved, presolve_initial, pivoted, pivot_col, pivot_row, call, first>>

\* Lines 75-76 and 45: the restored tableau and its copy.
Phase1Restore ==
    /\ pc = "phase1"
    /\ ~optimize_continues(tableau)
    /\ ~_artifical_variables_are_positive(tableau)
    /\ tableau' = _restore_initial_tableau(tableau, normal_model)
    /\ initial_tableau' = tableau'
    /\ pivoted' = FALSE
    /\ pc' = "phase2"
    /\ UNCHANGED <<model, normal_model, presolve_model, _slacks, _surpluses, _artificial, solution,
                   presolved, presolve_initial, pivot_col, pivot_row, call, first>>

\* Line 46, lines 53-57 of the loop of _optimize on the Phase-II tableau.
Phase2Choose ==
    /\ pc = "phase2"
    /\ optimize_continues(tableau)
    /\ pivot_col' = choose_entering_variable(tableau)
    /\ pivot_row' = choose_leaving_variable(tableau, pivot_col')
    /\ pc' = "phase2_pivot"
    /\ UNCHANGED <<model, normal_model, presolve_model, tableau, initial_tableau, _slacks,
                   _surpluses, _artificial, solution, presolved, presolve_initial, pivoted,
                   call, first>>

\* Line 59 on the Phase-II tableau: tableau.pivot(pivot_row, pivot_col)
Phase2Pivot ==
    /\ pc = "phase2_pivot"
    /\ tableau' = pivot(tableau, pivot_row, pivot_col)
    /\ pivoted' = TRUE
    /\ pc' = "phase2"
    /\ UNCHANGED <<model, normal_model, presolve_model, initial_tableau, _slacks, _surpluses,
                   _artificial, solution, presolved, presolve_initial, pivot_col, pivot_row,
                   call, first>>

\* Lines 46-47: Solution.unbounded(model, initial_tableau, tableau)
Phase2Unbounded ==
    /\ pc = "phase2"
    /\ ~optimize_continues(tableau)
    /\ ~optimize_result(tableau)
    /\ solution' = Solution("unbounded", None, initial_tableau, tableau)
    /\ pc' = "done"
    /\ UNCHANGED <<model, normal_model, presolve_model, tableau, initial_tableau, _slacks, _surpluses,
                   _artificial, presolved, presolve_initial, pivoted, pivot_col, pivot_row, call, first>>

\* Lines 49-50: the Solution with the assignment read off the final tableau.
Phase2Optimal ==
    /\ pc = "phase2"
    /\ ~optimize_continues(tableau)
    /\ optimize_result(tableau)
    /\ solution' = Solution("optimal", extract_assignment(tableau), initial_tableau, tableau)
    /\ pc' = "done"
    /\ UNCHANGED <<model, normal_model, presolve_model, tableau, initial_tableau, _slacks, _surpluses,
                   _artificial, presolved, presolve_initial, pivoted, pivot_col, pivot_row, call, first>>

Next ==
    \/ Augment
    \/ CreatePresolveModel
    \/ PresolveInitialTableau
    \/ BeginBasic
    \/ Phase1Choose
    \/ Phase1Pivot
    \/ Phase1Infeasible
    \/ Phase1Restore
    \/ Phase2Choose
    \/ Phase2Pivot
    \/ Phase2Unbounded
    \/ Phase2Optimal

Spec == Init /\ [][Next]_vars

Positions == {"start", "augmented", "presolve", "phase1", "phase1_pivot", "phase2",
              "phase2_pivot", "done"}

\* solve is sequential code: a call that has not returned executes its next
\* statement.  Every step of Next moves pc, and the steps that [][Next]_vars
\* allows to move pc are the steps of Next.
Executes == pc # "done" /\ pc' \in Positions

FairSpec == Spec /\ WF_pc(Executes)

\* A further solve call on the same Solver instance: the locals of solve are
\* new, the three dicts of the instance are what the last call left.  The
\* last call repeats the model of the first one.
NextCall ==
    /\ pc = "done"
    /\ call < MaxCalls
    /\ call' = call + 1
    /\ first' = IF call = 1 THEN [model |-> model, solution |-> solution] ELSE first
    /\ model' \in IF call' = MaxCalls THEN {first'.model} ELSE OtherModels
    /\ pc' = "start"
    /\ normal_model' = None
    /\ presolve_model' = None
    /\ tableau' = None
    /\ initial_tableau' = None
    /\ solution' = None
    /\ presolved' = FALSE
    /\ presolve_initial' = None
    /\ pivoted' = FALSE
    /\ pivot_col' = None
    /\ pivot_row' = None
    /\ UNCHANGED <<_slacks, _surpluses, _artificial>>

InitReuse == Init /\ model \in ReuseModels

SpecReuse == InitReuse /\ [][Next \/ NextCall]_vars

---------------------------------------------------------------------------
(* What a model means, stated without the tableau.                         *)

\* The value of an expression at the point x (a vector over 0..n-1).
value_at(expr, x) ==
    SumOver(DOMAIN x, [j \in DOMAIN x |-> Mul(IF j \in DOMAIN expr THEN expr[j] ELSE Zero, x[j])])

holds_at(c, x) ==
    LET v == value_at(c.expression, x)
    IN  CASE c.type = "LE" -> Le(v, c.bound)
          [] c.type = "GE" -> Le(c.bound, v)
          [] OTHER -> v = c.bound

\* x is a point of the feasible region of mdl.
Feasible(mdl, x) ==
    /\ \A j \in DOMAIN x : Le(Zero, x[j])
    /\ \A i \in DOMAIN mdl.constraints : holds_at(mdl.constraints[i], x)

\* Solution.objective_value: the caller's objective at the assignment.
objective_value(mdl, x) == value_at(mdl.objective.expression, x)

\* x is at least as good as y for the objective of mdl.
Better(mdl, x, y) ==
    IF mdl.objective.type = "MAX"
    THEN Le(objective_value(mdl, y), objective_value(mdl, x))
    ELSE Le(objective_value(mdl, x), objective_value(mdl, y))

\* d is a direction along which the feasible region never ends and the
\* objective improves for ever.
ImprovingRay(mdl, d) ==
    /\ Feasible([mdl EXCEPT !.constraints =
                    [i \in DOMAIN mdl.constraints |-> [mdl.constraints[i] EXCEPT !.bound = Zero]]],
                d)
    /\ LET gain == objective_value(mdl, d)
       IN  IF mdl.objective.type = "MAX" THEN Lt(Zero, gain) ELSE Lt(gain, Zero)

(* Vertex enumeration for a model over two variables: the vertices of the  *)
(* feasible region are the feasible intersections of two of the lines      *)
(* a.x = b of the constraints and the axes; its rays run along a line or   *)
(* an axis.                                                                *)

coef(expr, j) == IF j \in DOMAIN expr THEN expr[j] ELSE Zero

Lines(mdl) ==
    {<<coef(mdl.constraints[i].expression, 0), coef(mdl.constraints[i].expression, 1),
       mdl.constraints[i].bound>> : i \in DOMAIN mdl.constraints}
    \cup {<<One, Zero, Zero>>, <<Zero, One, Zero>>}

Det(a, b, c, d) == Sub(Mul(a, d), Mul(b, c))

Vertices(mdl) ==
    LET crossing == {p \in Lines(mdl) \X Lines(mdl) :
                        Det(p[1][1], p[1][2], p[2][1], p[2][2]) # Zero}
        point(p) ==
            LET det == Det(p[1][1], p[1][2], p[2][1], p[2][2])
            IN  <<Div(Det(p[1][3], p[1][2], p[2][3], p[2][2]), det),
                  Div(Det(p[1][1], p[1][3], p[2][1], p[2][3]), det)>>
    IN  {x \in {List(point(p)) : p \in crossing} : Feasible(mdl, x)}

Rays(mdl) ==
    LET along == {<<One, Zero>>, <<Zero, One>>}
                 \cup {<<Neg(l[2]), l[1]>> : l \in Lines(mdl)}
                 \cup {<<l[2], Neg(l[1])>> : l \in Lines(mdl)}
    IN  {d \in {List(t) : t \in along} : ImprovingRay(mdl, d)}

RefStatus(mdl) ==
    IF Vertices(mdl) = {} THEN "infeasible"
    ELSE IF Rays(mdl) # {} THEN "unbounded"
    ELSE "optimal"

\* The best vertex, when RefStatus is "optimal".
RefOptimum(mdl) ==
    objective_value(mdl, CHOOSE x \in Vertices(mdl) : \A y \in Vertices(mdl) : Better(mdl, x, y))

Returned == pc = "done"

---------------------------------------------------------------------------
(* C1: for every model with a finite optimum, solve returns optimal and    *)
(* the objective value of the returned assignment is the optimum found by  *)
(* vertex enumeration; example 04 returns [10, 0] with objective 20.       *)
(* Refuted: see C1_FiniteOptimumReportedUnbounded.                         *)
C1_OptimumMatchesReference ==
    /\ (Returned /\ model.n = 2 /\ RefStatus(model) = "optimal") =>
            /\ solution.status = "optimal"
            /\ objective_value(model, assignment_of(solution, model)) = RefOptimum(model)
    /\ (Returned /\ model = Example04) =>
            /\ solution.status = "optimal"
            /\ assignment_of(solution, model) = Vec(<<10, 0>>)
            /\ objective_value(model, assignment_of(solution, model)) = Rat(20)

---------------------------------------------------------------------------
(* C2: whenever solve returns optimal, the returned assignment satisfies   *)
(* every constraint of the caller's model and is non-negative.             *)
C2_OptimalAssignmentFeasible ==
    (Returned /\ solution.status = "optimal") =>
        Feasible(model, assignment_of(solution, model))

---------------------------------------------------------------------------
\* solve has decided between the slack-only path and _presolve.
PhaseChosen == pc \notin {"start", "augmented"}

AllLE(mdl) == \A i \in DOMAIN mdl.constraints : mdl.constraints[i].type = "LE"

\* The constraint gets no slack variable: it is not of kind <= once a
\* negative bound has been inverted.
NoSlackAfterInversion(c) ==
    \/ c.type = "EQ"
    \/ c.type = "GE" /\ Le(Zero, c.bound)
    \/ c.type = "LE" /\ Lt(c.bound, Zero)

(* C5 as stated: a model whose constraints are all <=, whatever the sign   *)
(* of the bounds, never runs _presolve and starts from                     *)
(* _basic_initial_tableau; a model with an = or >= constraint always runs  *)
(* _presolve.                                                              *)
C5_PhaseSelectionByOriginalKind ==
    PhaseChosen =>
        /\ AllLE(model) => ~presolved
        /\ ~AllLE(model) => presolved
        /\ (~presolved /\ pc \in {"phase2", "done"}) =>
                initial_tableau = _basic_initial_tableau(normal_model)

(* C5 amended: the phase is selected by the kinds after the inversion of   *)
(* the constraints with a negative bound: _presolve runs exactly when some *)
(* constraint is an =, a >= with a bound >= 0 or a <= with a bound < 0;    *)
(* otherwise the tableau comes from _basic_initial_tableau.                *)
C5_PhaseSelectionAfterInversion ==
    PhaseChosen =>
        /\ presolved <=> \E i \in DOMAIN model.constraints :
                            NoSlackAfterInversion(model.constraints[i])
        /\ (~presolved /\ pc \in {"phase2", "done"}) =>
                initial_tableau = _basic_initial_tableau(normal_model)

\* A model of <= constraints only has run _presolve and returned.
C5_AllLEPresolved == Returned /\ AllLE(model) /\ presolved

---------------------------------------------------------------------------
\* Column j is a unit column over the constraint rows with its 1 in row r.
unit_over_constraints(table, j, r) ==
    /\ table[r][j] = One
    /\ \A q \in constraint_rows(table) \ {r} : table[q][j] = Zero

InPhaseTwo == pc \in {"phase2", "phase2_pivot"} \/ (Returned /\ solution.status # "infeasible")

(* C8: in every tableau of Phase II (the slack-only initial tableau, the   *)
(* restored tableau, the tableau after each pivot) every constraint row    *)
(* has a unit column over rows 1..m with its 1 in that row.                *)
C8_PhaseTwoBasis ==
    InPhaseTwo =>
        \A r \in constraint_rows(tableau) :
            \E j \in variable_cols(tableau) : unit_over_constraints(tableau, j, r)

---------------------------------------------------------------------------
\* The restored tableau new, built from the Phase-I final tableau old, is
\* the max-form objective of the augmented model relative to its basis.
RestoredCanonical(old, new) ==
    LET objective == coefficients(normal_model.objective.expression, normal_model)
        rows == constraint_rows(new)
        basic(r) == {j \in variable_cols(new) :
                        unit_over_constraints(new, j, r) /\ new[0][j] = Zero}
        based == {r \in rows : basic(r) # {}}
        first_basic(r) == CHOOSE j \in basic(r) : \A k \in basic(r) : j <= k
    IN  /\ \A r \in rows : new[r] = delete_columns(old, DOMAIN _artificial)[r]
        /\ \A r \in rows :
                (\E j \in variable_cols(new) : unit_over_constraints(new, j, r))
                    => basic(r) # {}
        /\ new[0][rhs_col(new)] =
                SumOver(based, [r \in based |-> Mul(objective[first_basic(r)], new[r][rhs_col(new)])])
        /\ \A i \in DOMAIN new[0] :
                restore_selects(new, i) => \E r \in rows : unit_over_constraints(new, i, r)

(* C9: _restore_initial_tableau, for every m >= 1, keeps rows 1..m of the  *)
(* Phase-I final tableau without the artificial columns, leaves 0 in the   *)
(* objective row under the basic variable of every constraint row, leaves  *)
(* the objective value of the basic solution in the row-0 right-hand side, *)
(* and subtracts a row only for a unit column.                             *)
C9_RestoreCanonical ==
    [][(pc = "phase1" /\ pc' = "phase2") => RestoredCanonical(tableau, tableau')]_vars

---------------------------------------------------------------------------
(* C10: the Solution's initial tableau is never a pivoted one: on          *)
(* infeasible it is the tableau built by _presolve_initial_tableau and the *)
(* final one is the Phase-I tableau after the loop; on optimal and         *)
(* unbounded it is the snapshot taken before the first Phase-II pivot and  *)
(* differs from the final tableau when a pivot was made.                   *)
C10_InitialTableauKept ==
    Returned =>
        IF solution.status = "infeasible"
        THEN /\ solution.initial_tableau = presolve_initial
             /\ solution.tableau = tableau
        ELSE /\ solution.initial_tableau = initial_tableau
             /\ solution.tableau = tableau
             /\ pivoted => solution.initial_tableau # solution.tableau

---------------------------------------------------------------------------
(* Feasibility and unboundedness of a model, independently of the solver.  *)
(* Over two variables they are read off the vertices and rays; over more   *)
(* variables they are established by a certificate: a feasible point, an   *)
(* improving ray, or Farkas multipliers y with y.A >= 0 and y.b < 0.       *)

GridPoints(n) == [0..(n - 1) -> {Rat(0), Rat(10)}]
GridRays(n) == [0..(n - 1) -> {Zero, One}]
Multipliers == {Rat(k) : k \in -2..2}

FarkasCertificate(mdl) ==
    \E y \in [DOMAIN mdl.constraints -> Multipliers] :
        /\ \A i \in DOMAIN y :
                CASE mdl.constraints[i].type = "LE" -> Le(Zero, y[i])
                  [] mdl.constraints[i].type = "GE" -> Le(y[i], Zero)
                  [] OTHER -> TRUE
        /\ \A j \in 0..(mdl.n - 1) :
                Le(Zero, SumOver(DOMAIN y,
                            [i \in DOMAIN y |-> Mul(y[i], coef(mdl.constraints[i].expression, j))]))
        /\ Lt(SumOver(DOMAIN y, [i \in DOMAIN y |-> Mul(y[i], mdl.constraints[i].bound)]), Zero)

Contradictory(mdl) ==
    IF mdl.n = 2 THEN Vertices(mdl) = {} ELSE FarkasCertificate(mdl)

HasFeasiblePoint(mdl) ==
    IF mdl.n = 2 THEN Vertices(mdl) # {}
    ELSE \E x \in GridPoints(mdl.n) : Feasible(mdl, x)

ImprovableWithoutBound(mdl) ==
    /\ HasFeasiblePoint(mdl)
    /\ IF mdl.n = 2 THEN Rays(mdl) # {}
       ELSE \E d \in GridRays(mdl.n) : ImprovingRay(mdl, d)

---------------------------------------------------------------------------
(* C6: every solve call terminates: both runs of the _optimize loop reach  *)
(* is_optimal or is_unbounded after finitely many pivots, degenerate       *)
(* tableaux included.                                                      *)
C6_SolveTerminates == <>Returned

---------------------------------------------------------------------------
(* C3: solve returns infeasible exactly when the constraints have no       *)
(* common non-negative solution: every contradictory model is reported     *)
(* infeasible, no model with a feasible point is, and the decision is the  *)
(* test for a positive artificial variable after the Phase-I loop halted.  *)
C3_InfeasibleExactly ==
    /\ [](Returned /\ Contradictory(model) => solution.status = "infeasible")
    /\ [](Returned /\ HasFeasiblePoint(model) => solution.status # "infeasible")
    /\ [](Returned /\ solution.status = "infeasible" =>
                presolved /\ _artifical_variables_are_positive(tableau))
    /\ (Contradictory(model) ~> Returned)

---------------------------------------------------------------------------
(* C4: every model with a feasible point whose objective improves without  *)
(* bound over the feasible region is reported unbounded, as a result       *)
(* value; example 05 is reported unbounded.                                *)
C4_UnboundedReported ==
    /\ [](Returned /\ ImprovableWithoutBound(model) => solution.status = "unbounded")
    /\ [](Returned /\ model = Example05 => solution.status = "unbounded")
    /\ (ImprovableWithoutBound(model) ~> Returned)

---------------------------------------------------------------------------
\* The constraints of the caller's model that get a slack variable.
SlackRows(mdl) ==
    {i \in DOMAIN mdl.constraints : ~NoSlackAfterInversion(mdl.constraints[i])}

(* C7: on a Solver that has already solved other models, solve returns    *)
(* the status and the assignment that the first solve of the same model    *)
(* on the fresh Solver returned, and the maps read during a call are the   *)
(* ones built for that call's model.                                       *)
C7_ResultDependsOnlyOnModel ==
    /\ (Returned /\ call > 1 /\ model = first.model) =>
            /\ solution.status = first.solution.status
            /\ solution.assignment = first.solution.assignment
    /\ pc \notin {"start"} =>
            /\ values(_slacks) = SlackRows(model)
            /\ Cardinality(DOMAIN _slacks) = Cardinality(SlackRows(model))
    /\ (presolved /\ PhaseChosen) =>
            values(_artificial) = DOMAIN model.constraints \ SlackRows(model)

\* The last call of a reused Solver solved, through Phase I, the model that
\* the fresh Solver solved first.
C7_RepeatedAfterOtherCalls ==
    /\ Returned /\ call = MaxCalls /\ model = first.model
    /\ presolved /\ solution.status = "optimal"

============================================================================
